---- MODULE Spec2Model ----
(***************************************************************************)
(* Company Brain backend: the knowledge index (durable article store in    *)
(* GCS plus the Pinecone vector index), the /api/chat answer pipeline and   *)
(* the Gemini generation service, the Drive sync, authentication with the  *)
(* /api gate and the member routes, and the chat components' handleSend.    *)
(*                                                                          *)
(* Texts are modelled by a name and a length, [name, len]; substring(0, n)  *)
(* keeps the name and cuts the length, so every length the code computes    *)
(* is the length the program would compute.                                 *)
(***************************************************************************)
EXTENDS Integers, Sequences, FiniteSets, TLC

VARIABLES
    gcs,        \* durable store: bucket object name -> stored article
    pinecone,   \* vector index: record id -> [values, metadata]
    pineconeOn, \* VectorStoreService.pinecone !== null (PINECONE_API_KEY set)
    up,         \* POST /api/knowledge/upload in flight: [pc, art]
    upResp,     \* last response of POST /api/knowledge/upload
    delResp,    \* last response of DELETE /api/knowledge/:id
    found,      \* last vectorStore.search call: [dept, hits, failed]
    nreq,       \* number of requests accepted so far
    projectsFile, \* persisted project list (StorageService.loadProjects)
    membersFile,  \* persisted member list (StorageService.loadMembers)
    devEnv,     \* process.env.NODE_ENV === 'development'
    chat,       \* POST /api/chat in flight: position and locals
    chatResp,   \* response of POST /api/chat
    sync,       \* POST /api/sync-drive in flight: [pc, files, next, results, cycle]
    syncResp,   \* response of POST /api/sync-drive
    tmpFiles,   \* files present in os.tmpdir()
    logged,     \* console.error lines of the last DELETE /api/knowledge/:id
    ups,        \* concurrent POST /api/knowledge/upload requests: slot -> [pc, art]
    clock,      \* Date.now()
    exts,       \* concurrent pptx extractions: request -> [pc, path, threw]
    modelText,  \* response.text() handed to the JSON recovery
    recovered,  \* what the JSON recovery returned
    members,    \* the server's in-memory member list (let members)
    reqs,       \* /api requests in flight: request -> position and locals
    autoApprove, \* settings.json: autoApprove
    skipAuth,   \* process.env.SKIP_AUTH === 'true'
    ui          \* chat component: [component, messages, inputValue, isLoading, ...]

indexVars == <<gcs, pinecone, pineconeOn, up, upResp, delResp, found, nreq, logged>>

answerVars == <<projectsFile, membersFile, devEnv, chat, chatResp>>

syncVars == <<sync, syncResp, tmpFiles>>

raceVars == <<ups, clock, exts>>

recoverVars == <<modelText, recovered>>

authVars == <<members, reqs, autoApprove, skipAuth>>

uiVars == <<ui>>

vars == <<indexVars, answerVars, syncVars, raceVars, recoverVars, authVars, uiVars>>

-----------------------------------------------------------------------------
(* Bounds *)

\* requests accepted in one run of the index specification
MaxRequests == 3

\* tokens of a model text handed to the JSON recovery
MaxTextLen == 5

\* values Date.now() takes
MaxClock == 2

-----------------------------------------------------------------------------
(* Program constants *)

SummaryChars == 200      \* content.substring(0, 200)
EmbedContentChars == 8000 \* article.content.substring(0, 8000)
SearchLimit == 5         \* search(query, department, limit = 5)

-----------------------------------------------------------------------------
(* Values *)

Min(a, b) == IF a <= b THEN a ELSE b

\* `k-${Date.now()}`: two requests in the same millisecond get the same id
Ids == {"k-1", "k-2"}

\* file contents (plain text after parsing)
Contents == {[name |-> "c1", len |-> 120], [name |-> "c2", len |-> 9000]}

\* String.prototype.substring(0, n)
Substring(text, n) == [name |-> text.name, len |-> Min(text.len, n)]

NoArticle == [id |-> "none"]

-----------------------------------------------------------------------------
(* Knowledge index: article construction *)

\* files a client can upload: original name and parsed text
UploadNames == {"a.txt", "b.pdf", "c.docx"}

\* path.extname(originalName).toLowerCase()
ExtName(name) ==
    CASE name = "a.txt" -> ".txt"
      [] name = "b.pdf" -> ".pdf"
      [] name = "c.docx" -> ".docx"
      [] OTHER -> ""

\* the extensions DocumentParserService.parseFile has a case for
ParseFileCases == {".pdf", ".csv", ".txt", ".md", ".json"}

\* DocumentParserService.parseFile: the parsed content, or a throw (the
\* switch default throws; a case throws when its reader/parser fails)
ParseFile(name, content, readOk) ==
    IF ExtName(name) \in ParseFileCases /\ readOk
    THEN [threw |-> FALSE, content |-> content]
    ELSE [threw |-> TRUE, content |-> content]

\* the article POST /api/knowledge/upload builds from the parsed document
UploadArticle(id, originalName, content) ==
    [id |-> id,
     title |-> originalName,
     content |-> content,
     summary |-> Substring(content, SummaryChars),
     sourceUrl |-> "none",
     sourceType |-> "upload",
     allowedDepartments |-> {"general"}]

\* the media types processAndSave hands to a parser (pdf-parse, mammoth, xlsx,
\* officeparser), each of which can throw
ParsedMimeTypes ==
    {"application/pdf",
     "application/vnd.openxmlformats-officedocument.wordprocessingml.document",
     "application/vnd.openxmlformats-officedocument.spreadsheetml.sheet",
     "application/vnd.openxmlformats-officedocument.presentationml.presentation"}

\* mimeType.startsWith('text/')
StartsWithText(mimeType) == mimeType \in {"text/plain", "text/csv"}

\* number of characters of a file name
NameChars(name) ==
    CASE name = "a.txt" -> 5
      [] name = "b.pdf" -> 5
      [] name = "c.docx" -> 6
      [] name = "deck.pptx" -> 9
      [] name = "logo.png" -> 8
      [] OTHER -> 0

\* `[Content from ${fileName}]`
ContentMarker(fileName) ==
    [name |-> "content-marker", len |-> 15 + NameChars(fileName)]

\* the text processAndSave extracts: the parsed text, the file's own text, the
\* `[Content from ${fileName}]` marker of a type it has no branch for, or the
\* `[Error extracting content from ${fileName}]` marker when a parser throws
ExtractText(fileName, content, mimeType, parseOk) ==
    IF mimeType \in ParsedMimeTypes
    THEN IF parseOk
         THEN content
         ELSE [name |-> "error-marker", len |-> 32 + NameChars(fileName)]
    ELSE IF StartsWithText(mimeType)
    THEN content
    ELSE ContentMarker(fileName)

\* the article KnowledgeManager.processAndSave builds
DriveArticle(id, fileName, text, sourceUrl) ==
    [id |-> id,
     title |-> fileName,
     content |-> text,
     summary |-> Substring(text, SummaryChars),
     sourceUrl |-> sourceUrl,
     sourceType |-> "google_drive",
     allowedDepartments |-> {"general", "admin", "sales", "engineering"}]

-----------------------------------------------------------------------------
(* Knowledge index: the two stores *)

\* overwrite-or-create of one key of a keyed store
Put(store, key, val) ==
    [k \in (DOMAIN store) \cup {key} |-> IF k = key THEN val ELSE store[k]]

\* removal of one key of a keyed store
Remove(store, key) ==
    [k \in (DOMAIN store) \ {key} |-> store[k]]

GcsFileName_PerVersion(article) == <<article.id, article.content.name>>

\* bucket.file(`${article.id}.json`)
GcsFileName(article) == <<article.id, "json">>

\* KnowledgeManager.saveToGCS: file.save, errors logged and swallowed
SaveToGCS(store, article, saveOk) ==
    IF saveOk THEN Put(store, GcsFileName(article), article) ELSE store

\* KnowledgeManager.deleteArticle: file.delete, errors logged and swallowed
GcsDeleteArticle(store, id, deleteOk) ==
    IF deleteOk THEN Remove(store, <<id, "json">>) ELSE store

GcsDeleteLog_Silent(id, deleteOk) == {}

\* the catch of KnowledgeManager.deleteArticle: console.error
GcsDeleteLog(id, deleteOk) == IF deleteOk THEN {} ELSE {"gcs"}

\* GeminiService.generateEmbedding: a vector determined by the text, or a
\* throw; the empty vector, and no throw, for the empty text
GenerateEmbedding(text, embedOk) ==
    IF text = <<>>
    THEN [threw |-> FALSE, values |-> <<>>]
    ELSE [threw |-> ~embedOk, values |-> text]

\* the metadata projection stored beside the vector
PineconeMetadata(article) ==
    [title |-> article.title,
     summary |-> article.summary,
     category |-> "technical",
     sourceUrl |-> article.sourceUrl,
     allowedDepartments |-> article.allowedDepartments]

\* `Title: ${title}\nSummary: ${summary}\nContent: ${content.substring(0, 8000)}`
TextToEmbed(article) ==
    <<article.title, article.summary, Substring(article.content, EmbedContentChars)>>

\* the id of the record index.upsert writes
PineconeRecordId(article) == article.id

\* VectorStoreService.upsertArticle: no-op without a client; any error swallowed
UpsertArticle(index, on, article, embedOk, upsertOk) ==
    LET e == GenerateEmbedding(TextToEmbed(article), embedOk)
    IN  IF ~on \/ e.threw \/ ~upsertOk
        THEN index
        ELSE Put(index, PineconeRecordId(article),
                 [id |-> article.id, values |-> e.values,
                  metadata |-> PineconeMetadata(article)])

\* VectorStoreService.deleteArticle: no-op without a client; any error swallowed
PineconeDeleteArticle(index, on, id, deleteOk) ==
    IF on /\ deleteOk THEN Remove(index, id) ELSE index

\* the catch of VectorStoreService.deleteArticle: console.error
PineconeDeleteLog(on, id, deleteOk) == IF on /\ ~deleteOk THEN {"pinecone"} ELSE {}

\* callers' departments: user?.department is undefined for a profile without
\* one; 'admin' is the department of the SKIP_AUTH developer profile
Departments == {"absent", "general", "sales", "admin"}

\* the metadata filter search builds: none for an absent department or 'admin'
SearchFilter(department) ==
    IF department # "absent" /\ department # "admin"
    THEN [filtered |-> TRUE, allowedDepartments |-> department]
    ELSE [filtered |-> FALSE, allowedDepartments |-> "absent"]

\* Pinecone's filter on an array field: the array contains the value
FilterMatches(filter, metadata) ==
    filter.filtered => filter.allowedDepartments \in metadata.allowedDepartments

\* the KnowledgeArticle search rebuilds from a match's metadata
MatchToArticle(match) ==
    [id |-> match.id,
     title |-> match.metadata.title,
     content |-> match.metadata.summary,
     summary |-> match.metadata.summary,
     sourceUrl |-> match.metadata.sourceUrl,
     sourceType |-> "google_drive",
     allowedDepartments |-> match.metadata.allowedDepartments]

\* sequences without repetition of exactly n elements of S
Arrangements(S, n) ==
    {q \in [1..n -> S] : \A i, j \in 1..n : i # j => q[i] # q[j]}

\* index.query: topK records that pass the filter, in similarity order (the
\* similarity of a query to a record is the embedding backend's, so any order)
QueryResults(index, filter, topK) ==
    LET pass == {k \in DOMAIN index : FilterMatches(filter, index[k].metadata)}
    IN  Arrangements(pass, Min(topK, Cardinality(pass)))

\* the texts search is called with: a question, and the empty text
Question == <<"query">>
Queries == {Question, <<>>}

\* search without its try/catch: a backend failure reaches the caller
SearchResults_NoCatch(index, on, query, department, embedOk, queryOk) ==
    IF ~on
    THEN {[threw |-> FALSE, queried |-> FALSE, hits |-> <<>>]}
    ELSE IF GenerateEmbedding(query, embedOk).threw
    THEN {[threw |-> TRUE, queried |-> FALSE, hits |-> <<>>]}
    ELSE IF ~queryOk
    THEN {[threw |-> TRUE, queried |-> TRUE, hits |-> <<>>]}
    ELSE {[threw |-> FALSE, queried |-> TRUE,
           hits |-> [i \in DOMAIN q |-> MatchToArticle(index[q[i]])]] :
            q \in QueryResults(index, SearchFilter(department), SearchLimit)}

\* VectorStoreService.search: the possible results of one call (a failure of
\* the embedding or of the query is caught and answered with no hits);
\* queried tells whether index.query was called
SearchResults(index, on, query, department, embedOk, queryOk) ==
    IF ~on
    THEN {[threw |-> FALSE, queried |-> FALSE, hits |-> <<>>]}
    ELSE IF GenerateEmbedding(query, embedOk).threw
    THEN {[threw |-> FALSE, queried |-> FALSE, hits |-> <<>>]}
    ELSE IF ~queryOk
    THEN {[threw |-> FALSE, queried |-> TRUE, hits |-> <<>>]}
    ELSE {[threw |-> FALSE, queried |-> TRUE,
           hits |-> [i \in DOMAIN q |-> MatchToArticle(index[q[i]])]] :
            q \in QueryResults(index, SearchFilter(department), SearchLimit)}

-----------------------------------------------------------------------------
(* Context assembly of POST /api/chat *)

\* ProjectStatus values after which a project is over
TerminalProjectStatuses == {"completed", "cancelled"}

\* the member status that ends a membership
TerminalMemberStatuses == {"rejected"}

ContextCeiling == 10000   \* .substring(0, 10000)
DescriptionLimit == 200   \* p.description.length > 200
MaxDigestProjects == 5    \* .slice(0, 5)
MaxDigestMembers == 10    \* currentMembers.slice(0, 10)
MaxDigestSkills == 5      \* (m.skills || []).slice(0, 5)
BaseDescriptionChars == 35 \* companyContext.companyInfo.description

\* a text of n characters
Text(n) == [name |-> "t", len |-> n]

\* number of decimal digits of a number below 1000
Digits(n) == IF n < 10 THEN 1 ELSE IF n < 100 THEN 2 ELSE 3

\* Array.prototype.slice(0, n)
Slice(q, n) == SubSeq(q, 1, Min(Len(q), n))

\* total length of the elements of a sequence of numbers
RECURSIVE Sum(_)
Sum(q) == IF q = <<>> THEN 0 ELSE Head(q) + Sum(Tail(q))

\* length of texts.join(sep) for a separator of sepChars characters
JoinChars(lens, sepChars) ==
    IF lens = <<>> THEN 0 ELSE Sum(lens) + sepChars * (Len(lens) - 1)

\* `x || fallback` on a string: the empty string is falsy
OrChars(text, fallbackChars) == IF text.len > 0 THEN text.len ELSE fallbackChars

\* the projects the digest lists
ActiveProjects(currentProjects) ==
    Slice(SelectSeq(currentProjects, LAMBDA p : p.status = "in_progress"),
          MaxDigestProjects)

\* the members the digest lists
DisplayMembers(currentMembers) == Slice(currentMembers, MaxDigestMembers)

\* characters the forEach body appends for one project
ProjectEntryChars(p, currentMembers) ==
    LET assigned == SelectSeq(currentMembers, LAMBDA m : m.id \in p.assignees)
        assigneeNames == JoinChars([i \in DOMAIN assigned |-> assigned[i].name.len], 2)
        stateChars == IF p.status = "planning" \/ p.status = "in_progress" THEN 3 ELSE 2
    IN  \* `\n- ${p.name} (${p.category || '未分類'})\n`
        (3 + p.name.len + 2 + OrChars(p.category, 3) + 2)
        \* `  状態: ${...}\n`
      + (6 + stateChars + 1)
        \* `  進捗: ${p.progressPercent || 0}%\n`
      + (6 + Digits(p.progressPercent) + 2)
        \* `  担当者: ${assigneeNames || '未割り当て'}\n`
      + (7 + (IF assigneeNames > 0 THEN assigneeNames ELSE 5) + 1)
        \* `  期限: ${new Date(p.deadline).toLocaleDateString('ja-JP')}\n`
      + (6 + p.deadline.len + 1)
        \* `  概要: ${p.description.substring(0, 200)}...\n` or `  概要: ${p.description || 'なし'}\n`
      + (IF p.description.len > DescriptionLimit
         THEN 6 + Substring(p.description, DescriptionLimit).len + 3 + 1
         ELSE 6 + OrChars(p.description, 2) + 1)

\* characters the forEach body appends for one member
MemberEntryChars(m) ==
    LET shown == Slice(m.skills, MaxDigestSkills)
        skills == JoinChars([i \in DOMAIN shown |-> shown[i].len], 2)
        loadChars == IF m.workloadStatus = "available" THEN 4
                     ELSE IF m.workloadStatus = "busy" THEN 2 ELSE 3
    IN  \* `\n- ${m.name} (${m.department || '未所属'} / ${m.position || '未設定'})\n`
        (3 + m.name.len + 2 + OrChars(m.department, 3) + 3 + OrChars(m.position, 3) + 2)
        \* `  スキル: ${skills || 'なし'}\n`
      + (7 + (IF skills > 0 THEN skills ELSE 2) + 1)
        \* `  作業負荷: ${...}\n`
      + (8 + loadChars + 1)

\* length of enhancedContext
EnhancedContextChars(currentProjects, currentMembers) ==
    LET active == ActiveProjects(currentProjects)
        shown == DisplayMembers(currentMembers)
    IN  16  \* `\n\n【現在のプロジェクト一覧】\n`
      + Sum([i \in DOMAIN active |-> ProjectEntryChars(active[i], currentMembers)])
      + (IF Len(currentProjects) > MaxDigestProjects
         THEN 6 + Digits(Len(currentProjects) - MaxDigestProjects) + 16
         ELSE 0)
      + 10  \* `\n【メンバー一覧】\n`
      + Sum([i \in DOMAIN shown |-> MemberEntryChars(shown[i])])
      + (IF Len(currentMembers) > MaxDigestMembers
         THEN 6 + Digits(Len(currentMembers) - MaxDigestMembers) + 13
         ELSE 0)

\* context.companyInfo.description
ContextDescription(currentProjects, currentMembers) ==
    Substring([name |-> "description+digest",
               len |-> BaseDescriptionChars
                       + EnhancedContextChars(currentProjects, currentMembers)],
              ContextCeiling)

\* characters of the context in the prompt GeminiService.query sends: the
\* description, the 【関連ナレッジ】 list of buildSystemPrompt and the block of
\* `${a.title}: ${a.content}` joined by blank lines
PromptContextChars(description, relevantArticles) ==
    LET n == Len(relevantArticles)
        listed == [i \in 1..n |-> 2 + NameChars(relevantArticles[i].title) + 2
                                    + relevantArticles[i].summary.len + 1]
        block == [i \in 1..n |-> NameChars(relevantArticles[i].title) + 2
                                   + relevantArticles[i].content.len]
    IN  description.len
      + (IF n > 0 THEN 11 + Sum(listed) ELSE 0)
      + (IF n > 0 THEN 24 + JoinChars(block, 2) ELSE 0)

-----------------------------------------------------------------------------
(* Generation: GeminiService.query *)

Confidence == 85

\* GeminiService.modelName, the model this.model is built for
ModelName == "gemini-1.5-flash"

\* the declared candidate order: the primary model, then the fallback models
FallbackChain == <<ModelName, "fallback-1", "fallback-2">>

Models == {FallbackChain[i] : i \in DOMAIN FallbackChain}

\* what a generateContent call on a model ends in: text, empty text, or an
\* error of one of the endpoint's categories
GenOutcomes == {"text", "empty", "notfound", "permission", "ratelimit", "safety", "other"}
GenErrors == GenOutcomes \ {"text", "empty"}

\* how the endpoints behave during one request
EndpointBehaviours ==
    {e \in [Models -> GenOutcomes] :
        \A m \in Models \ {ModelName} : e[m] \in {"text", "permission"}}

NoBehaviour == [m \in Models |-> "unset"]

\* response.text() of a model
AnswerText(model, outcome) ==
    [model |-> model, text |-> IF outcome = "text" THEN "answer" ELSE ""]

NoAnswer == [model |-> "none", text |-> ""]

\* error.message of a failed call
RawMessage(model, kind) == [model |-> model, kind |-> kind]

NoRaw == [model |-> "none", kind |-> "none"]

\* the Error the catch of query throws: the fixed quota text for status 429,
\* else the fixed prefix followed by error.message
QueryError(model, kind) ==
    IF kind = "ratelimit"
    THEN [category |-> "quota", raw |-> NoRaw]
    ELSE [category |-> "failed", raw |-> RawMessage(model, kind)]

NoError == [category |-> "none", raw |-> NoRaw]

QueryCatch_Retry(model, kind) ==
    [pc |-> "generate", error |-> QueryError(model, kind)]

\* the catch of query ends the call: the error is thrown to the handler, no
\* further generateContent call is made
QueryCatch(model, kind) ==
    [pc |-> "done", error |-> QueryError(model, kind)]

\* what the follow-up call's generateContent and text ends in: a JSON array,
\* text without [...], text whose [...] JSON.parse rejects, or an error
FollowUpOutcomes == {"array", "nomatch", "badjson", "error"}

GenerateFollowUpQuestions_NoCatch(outcome) ==
    IF outcome = "array"
    THEN [threw |-> FALSE, questions |-> <<"q1", "q2", "q3">>]
    ELSE IF outcome = "nomatch"
    THEN [threw |-> FALSE, questions |-> <<>>]
    ELSE [threw |-> TRUE, questions |-> <<>>]

\* GeminiService.generateFollowUpQuestions: every failure is caught and
\* answered with no questions
GenerateFollowUpQuestions(outcome) ==
    IF outcome = "array"
    THEN [threw |-> FALSE, questions |-> <<"q1", "q2", "q3">>]
    ELSE [threw |-> FALSE, questions |-> <<>>]

\* sources: currentContext.relevantArticles.map(a => a.title); an entry is the
\* bare title, so the url a reader of the entry finds is undefined ("none")
Sources(relevantArticles) ==
    [i \in DOMAIN relevantArticles |->
        [title |-> relevantArticles[i].title, url |-> "none"]]

\* the body res.json(response) sends
AnswerResponse(answer, relevantArticles, questions) ==
    [status |-> 200,
     answer |-> answer,
     sources |-> Sources(relevantArticles),
     confidence |-> Confidence,
     suggestedQuestions |-> questions,
     details |-> NoError,
     stack |-> FALSE]

\* the body the catch of POST /api/chat sends: error.message as details, and
\* error.stack in development
ChatErrorResponse(error, development) ==
    [status |-> 500,
     answer |-> NoAnswer,
     sources |-> <<>>,
     confidence |-> 0,
     suggestedQuestions |-> <<>>,
     details |-> error,
     stack |-> development]

\* the 400 of a request without a question
NoQuestionResponse ==
    [status |-> 400,
     answer |-> NoAnswer,
     sources |-> <<>>,
     confidence |-> 0,
     suggestedQuestions |-> <<>>,
     details |-> NoError,
     stack |-> FALSE]

NoChatResponse == [NoQuestionResponse EXCEPT !.status = 0]

\* no chat request in flight
NoChat ==
    [pc |-> "idle", department |-> "absent", searchFailed |-> FALSE,
     relevantArticles |-> <<>>, digestProjects |-> <<>>, digestMembers |-> <<>>,
     description |-> Text(0), endpoint |-> NoBehaviour,
     invoked |-> <<>>, answer |-> NoAnswer, followUp |-> "none"]

-----------------------------------------------------------------------------
(* Knowledge index: request handlers *)

NoUpload == [pc |-> "idle", art |-> NoArticle]
NoResponse == [seq |-> 0, status |-> 0, name |-> "none", id |-> "none"]
NoSearch ==
    [seq |-> 0, query |-> Question, department |-> "absent", queried |-> FALSE,
     hits |-> <<>>, failed |-> FALSE]
NoSync == [pc |-> "idle", files |-> <<>>, next |-> 1, results |-> <<>>, cycle |-> <<>>]
NoSyncResponse == [status |-> 0, syncedCount |-> 0]
NoLogged == [id |-> "none", errors |-> {}]
\* requests whose handlers can be in flight together
Requests == {"A", "B"}

NoIngestion == [pc |-> "idle", art |-> NoArticle, saved |-> FALSE, indexed |-> FALSE]

NoUploads == [r \in Requests |-> NoIngestion]

NoExtraction == [pc |-> "idle", path |-> <<>>, threw |-> FALSE]

NoExtractions == [r \in Requests |-> NoExtraction]

\* the greeting a chat component starts with
Greeting == [role |-> "assistant", content |-> "greeting"]

\* a chat component before any send
NoUi ==
    [component |-> "ChatInterface", messages |-> <<Greeting>>, inputValue |-> "",
     isLoading |-> FALSE, inflight |-> 0, sends |-> 0]

\* no member found / no member built
NoMember == [id |-> "none", name |-> "", role |-> "absent", status |-> "absent"]

\* an /api request that has not arrived
NoRequest ==
    [pc |-> "idle", method |-> "none", path |-> "none", token |-> "none",
     tokenStatus |-> "none", authed |-> FALSE, nexted |-> FALSE, user |-> "none",
     role |-> "absent", member |-> NoMember, allMembers |-> <<>>,
     status |-> 0, ran |-> FALSE, wrote |-> FALSE]

NoRequests == [r \in Requests |-> NoRequest]
NoRecovered == [done |-> FALSE]

InitIndex ==
    /\ gcs = <<>>
    /\ pinecone = <<>>
    /\ pineconeOn \in BOOLEAN
    /\ up = NoUpload
    /\ upResp = NoResponse
    /\ delResp = NoResponse
    /\ found = NoSearch
    /\ nreq = 0
    /\ projectsFile = <<>>
    /\ membersFile = <<>>
    /\ devEnv = FALSE
    /\ chat = NoChat
    /\ chatResp = NoChatResponse
    /\ sync = NoSync
    /\ syncResp = NoSyncResponse
    /\ tmpFiles = {}
    /\ logged = NoLogged
    /\ ups = NoUploads
    /\ exts = NoExtractions
    /\ clock = 1
    /\ modelText = <<>>
    /\ recovered = NoRecovered
    /\ members = <<>>
    /\ reqs = NoRequests
    /\ autoApprove = FALSE
    /\ skipAuth = FALSE
    /\ ui = NoUi

\* POST /api/knowledge/upload, up to the article: parseFile, then the article
\* is built; a throw of parseFile is answered 500 by the handler's catch
UploadParse ==
    \E id \in Ids, name \in UploadNames, content \in Contents, readOk \in BOOLEAN :
        LET parsed == ParseFile(name, content, readOk)
        IN  /\ up.pc = "idle"
            /\ nreq < MaxRequests
            /\ nreq' = nreq + 1
            /\ IF parsed.threw
               THEN /\ up' = NoUpload
                    /\ upResp' = [seq |-> nreq + 1, status |-> 500,
                                  name |-> name, id |-> "none"]
               ELSE /\ up' = [pc |-> "save",
                              art |-> UploadArticle(id, name, parsed.content)]
                    /\ upResp' = [seq |-> nreq + 1, status |-> 0,
                                  name |-> name, id |-> "none"]
            /\ UNCHANGED <<gcs, pinecone, pineconeOn, delResp, found, logged, answerVars, syncVars, raceVars, recoverVars,
                       authVars, uiVars>>

\* step 3 of the upload: await knowledgeManager.saveArticle(article)
UploadSave ==
    \E saveOk \in BOOLEAN :
        /\ up.pc = "save"
        /\ gcs' = SaveToGCS(gcs, up.art, saveOk)
        /\ up' = [up EXCEPT !.pc = "index"]
        /\ UNCHANGED <<pinecone, pineconeOn, upResp, delResp, found, nreq, logged, answerVars, syncVars, raceVars, recoverVars,
                       authVars, uiVars>>

\* step 4 of the upload and the response: await vectorStore.upsertArticle(article)
UploadIndex ==
    \E embedOk \in BOOLEAN, upsertOk \in BOOLEAN :
        /\ up.pc = "index"
        /\ pinecone' = UpsertArticle(pinecone, pineconeOn, up.art, embedOk, upsertOk)
        /\ up' = NoUpload
        /\ upResp' = [upResp EXCEPT !.status = 200, !.id = up.art.id]
        /\ UNCHANGED <<gcs, pineconeOn, delResp, found, nreq, logged, answerVars, syncVars, raceVars, recoverVars,
                       authVars, uiVars>>

\* DELETE /api/knowledge/:id: both deletions, then { success: true }
DeleteKnowledge ==
    \E id \in Ids, gcsOk \in BOOLEAN, pineconeOk \in BOOLEAN :
        /\ nreq < MaxRequests
        /\ nreq' = nreq + 1
        /\ gcs' = GcsDeleteArticle(gcs, id, gcsOk)
        /\ pinecone' = PineconeDeleteArticle(pinecone, pineconeOn, id, pineconeOk)
        /\ delResp' = [seq |-> nreq + 1, status |-> 200, name |-> "none", id |-> id]
        /\ logged' = [id |-> id,
                      errors |-> GcsDeleteLog(id, gcsOk)
                                   \cup PineconeDeleteLog(pineconeOn, id, pineconeOk)]
        /\ UNCHANGED <<pineconeOn, up, upResp, found, answerVars, syncVars, raceVars, recoverVars, authVars, uiVars>>

\* vectorStore.search(question, user?.department)
Search ==
    \E query \in Queries, department \in Departments, embedOk \in BOOLEAN,
       queryOk \in BOOLEAN :
        \E r \in SearchResults(pinecone, pineconeOn, query, department, embedOk, queryOk) :
            /\ nreq < MaxRequests
            /\ nreq' = nreq + 1
            /\ found' = [seq |-> nreq + 1, query |-> query, department |-> department,
                         queried |-> r.queried, hits |-> r.hits,
                         failed |-> \/ ~pineconeOn
                                    \/ GenerateEmbedding(query, embedOk).threw
                                    \/ ~queryOk]
            /\ UNCHANGED <<gcs, pinecone, pineconeOn, up, upResp, delResp, logged, answerVars, syncVars, raceVars, recoverVars,
                       authVars, uiVars>>

NextIndex == UploadParse \/ UploadSave \/ UploadIndex \/ DeleteKnowledge \/ Search

SpecIndex == InitIndex /\ [][NextIndex]_vars

-----------------------------------------------------------------------------
(* POST /api/sync-drive *)

\* an entry of drive.files.list: a field Drive does not return is "absent"
DriveFile(name, mimeType, content) ==
    [name |-> name, mimeType |-> mimeType, content |-> content,
     webViewLink |-> "https://drive/file"]

\* folders a sync can find
FileBatches ==
    {<<>>,
     <<DriveFile("logo.png", "image/png", [name |-> "c1", len |-> 120]),
       DriveFile("deck.pptx",
                 "application/vnd.openxmlformats-officedocument.presentationml.presentation",
                 [name |-> "c2", len |-> 9000])>>,
     <<DriveFile("b.pdf", "absent", [name |-> "c1", len |-> 120]),
       DriveFile("a.txt", "text/plain", [name |-> "c1", len |-> 120])>>}

\* `temp-${Date.now()}.pptx` in os.tmpdir()
TempPaths == {"temp-1.pptx", "temp-2.pptx"}

PptxMimeType ==
    "application/vnd.openxmlformats-officedocument.presentationml.presentation"

\* fs.writeFile(tempPath, content): the file is written, or the write throws
\* after creating the file, or it throws before creating it
WriteOutcomes == {"written", "partial", "failed"}

WriteFile(files, path, outcome) ==
    IF outcome = "failed" THEN files ELSE files \cup {path}

\* fs.unlink(tempPath).catch(() => { }): the file is removed when it is there
Unlink(files, path) == files \ {path}

PptxFinally_OnSuccess(files, path, threw) ==
    IF threw THEN files ELSE Unlink(files, path)

\* the finally of the pptx branch: runs on every exit of the inner try
PptxFinally(files, path, threw) == Unlink(files, path)

\* the pptx branch of processAndSave: write the temporary file, parse it,
\* remove it; a throw of the write or of the parser leaves through the finally
PptxBranch(files, path, writeOutcome, parseOk) ==
    LET written == WriteFile(files, path, writeOutcome)
        threw == writeOutcome # "written" \/ ~parseOk
    IN  [threw |-> threw, files |-> PptxFinally(written, path, threw)]

\* no text extracted yet
NoText == [name |-> "none", len |-> 0]

\* the for ... of loop with its awaits: the body of the next file starts when
\* no body is running
MayStart_NoAwait(s) == TRUE

MayStart(s) == DOMAIN s.cycle = {}

\* the request arrives and lists the folder; a throw of listFiles is answered
\* 500 by the handler's catch
SyncStart ==
    \E files \in FileBatches, listOk \in BOOLEAN :
        /\ sync.pc \in {"idle", "done"}
        /\ nreq < MaxRequests
        /\ nreq' = nreq + 1
        /\ IF listOk
           THEN /\ sync' = [pc |-> "loop", files |-> files, next |-> 1,
                            results |-> <<>>, cycle |-> <<>>]
                /\ syncResp' = NoSyncResponse
           ELSE /\ sync' = [NoSync EXCEPT !.pc = "done"]
                /\ syncResp' = [status |-> 500, syncedCount |-> 0]
        /\ UNCHANGED <<gcs, pinecone, pineconeOn, up, upResp, delResp, found, logged,
                       tmpFiles, answerVars, raceVars, recoverVars, authVars, uiVars>>

\* the loop takes the next file: a file without a mimeType is passed over,
\* else its body starts with getFileContent
SyncBegin ==
    /\ sync.pc = "loop"
    /\ sync.next <= Len(sync.files)
    /\ MayStart(sync)
    /\ IF sync.files[sync.next].mimeType = "absent"
       THEN sync' = [sync EXCEPT !.next = @ + 1]
       ELSE sync' = [sync EXCEPT
                       !.next = @ + 1,
                       !.cycle = Put(@, sync.next, [stage |-> "fetch", text |-> NoText,
                                                    art |-> NoArticle])]
    /\ UNCHANGED <<syncResp, tmpFiles, indexVars, answerVars, raceVars, recoverVars, authVars, uiVars>>

\* await driveService.getFileContent: a throw reaches the handler's catch
SyncFetch ==
    \E i \in DOMAIN sync.cycle, fetchOk \in BOOLEAN :
        /\ sync.pc = "loop"
        /\ sync.cycle[i].stage = "fetch"
        /\ IF fetchOk
           THEN /\ sync' = [sync EXCEPT !.cycle[i].stage = "extract"]
                /\ syncResp' = syncResp
           ELSE /\ sync' = [sync EXCEPT !.pc = "done", !.cycle = <<>>]
                /\ syncResp' = [status |-> 500, syncedCount |-> 0]
        /\ UNCHANGED <<tmpFiles, indexVars, answerVars, raceVars, recoverVars, authVars, uiVars>>

\* processAndSave up to the text: the branch of the file's media type
SyncExtract ==
    \E i \in DOMAIN sync.cycle, parseOk \in BOOLEAN, path \in TempPaths,
       writeOutcome \in WriteOutcomes :
        LET file == sync.files[i]
            pptx == PptxBranch(tmpFiles, path, writeOutcome, parseOk)
            isPptx == file.mimeType = PptxMimeType
            text == ExtractText(file.name, file.content, file.mimeType,
                                IF isPptx THEN ~pptx.threw ELSE parseOk)
        IN  /\ sync.pc = "loop"
            /\ sync.cycle[i].stage = "extract"
            /\ sync' = [sync EXCEPT !.cycle[i].stage = "save", !.cycle[i].text = text]
            /\ tmpFiles' = IF isPptx THEN pptx.files ELSE tmpFiles
            /\ UNCHANGED <<syncResp, indexVars, answerVars, raceVars, recoverVars, authVars, uiVars>>

\* the rest of processAndSave: the article and await this.saveToGCS(article)
SyncSave ==
    \E i \in DOMAIN sync.cycle, id \in Ids, saveOk \in BOOLEAN :
        LET file == sync.files[i]
            article == DriveArticle(id, file.name, sync.cycle[i].text, file.webViewLink)
        IN  /\ sync.pc = "loop"
            /\ sync.cycle[i].stage = "save"
            /\ gcs' = SaveToGCS(gcs, article, saveOk)
            /\ sync' = [sync EXCEPT !.cycle[i].stage = "upsert", !.cycle[i].art = article]
            /\ UNCHANGED <<pinecone, pineconeOn, up, upResp, delResp, found, nreq, logged,
                           syncResp, tmpFiles, answerVars, raceVars, recoverVars, authVars, uiVars>>

\* await vectorStore.upsertArticle(article); results.push(article)
SyncUpsert ==
    \E i \in DOMAIN sync.cycle, embedOk \in BOOLEAN, upsertOk \in BOOLEAN :
        /\ sync.pc = "loop"
        /\ sync.cycle[i].stage = "upsert"
        /\ pinecone' = UpsertArticle(pinecone, pineconeOn, sync.cycle[i].art,
                                     embedOk, upsertOk)
        /\ sync' = [sync EXCEPT !.results = Append(@, sync.cycle[i].art),
                                !.cycle = Remove(@, i)]
        /\ UNCHANGED <<gcs, pineconeOn, up, upResp, delResp, found, nreq, logged,
                       syncResp, tmpFiles, answerVars, raceVars, recoverVars, authVars, uiVars>>

\* after the loop: res.json({ success: true, syncedCount, articles })
SyncFinish ==
    /\ sync.pc = "loop"
    /\ sync.next > Len(sync.files)
    /\ DOMAIN sync.cycle = {}
    /\ sync' = [sync EXCEPT !.pc = "done"]
    /\ syncResp' = [status |-> 200, syncedCount |-> Len(sync.results)]
    /\ UNCHANGED <<tmpFiles, indexVars, answerVars, raceVars, recoverVars, authVars, uiVars>>

NextSync ==
    SyncStart \/ SyncBegin \/ SyncFetch \/ SyncExtract \/ SyncSave \/ SyncUpsert
        \/ SyncFinish

SpecSync == InitIndex /\ [][NextSync]_vars

NextIngest == UploadParse \/ UploadSave \/ UploadIndex \/ NextSync

SpecIngest == InitIndex /\ [][NextIngest]_vars

-----------------------------------------------------------------------------
(* Ingestions in flight together *)

\* `k-${Date.now()}`
ArticleId(now) == <<"k", now>>

\* the article an ingestion builds at the time now: an upload's, or a
\* Drive file's
IngestedArticles(now) ==
    {UploadArticle(ArticleId(now), "a.txt", content) : content \in Contents}
      \cup {DriveArticle(ArticleId(now), "a.txt", content, "https://drive/a")
               : content \in Contents}

InitRace ==
    /\ gcs = <<>>
    /\ pinecone = <<>>
    /\ pineconeOn \in BOOLEAN
    /\ up = NoUpload
    /\ upResp = NoResponse
    /\ delResp = NoResponse
    /\ found = NoSearch
    /\ nreq = 0
    /\ logged = NoLogged
    /\ projectsFile = <<>>
    /\ membersFile = <<>>
    /\ devEnv = FALSE
    /\ chat = NoChat
    /\ chatResp = NoChatResponse
    /\ sync = NoSync
    /\ syncResp = NoResponse
    /\ tmpFiles = {}
    /\ ups = NoUploads
    /\ exts = NoExtractions
    /\ clock = 1
    /\ modelText = <<>>
    /\ recovered = NoRecovered
    /\ members = <<>>
    /\ reqs = NoRequests
    /\ autoApprove = FALSE
    /\ skipAuth = FALSE
    /\ ui = NoUi

\* the passing of a millisecond
Tick ==
    /\ clock < MaxClock
    /\ clock' = clock + 1
    /\ UNCHANGED <<ups, exts, indexVars, answerVars, syncVars, recoverVars, authVars, uiVars>>

\* the handler of request r builds its article: the id is the time of the
\* construction
RaceArrive(r) ==
    \E art \in IngestedArticles(clock) :
        /\ ups[r].pc = "idle"
        /\ ups' = [ups EXCEPT ![r] = [pc |-> "save", art |-> art,
                                      saved |-> FALSE, indexed |-> FALSE]]
        /\ UNCHANGED <<clock, exts, indexVars, answerVars, syncVars, recoverVars, authVars, uiVars>>

\* await saveArticle(article) / await this.saveToGCS(article) of request r
RaceSave(r) ==
    \E saveOk \in BOOLEAN :
        /\ ups[r].pc = "save"
        /\ gcs' = SaveToGCS(gcs, ups[r].art, saveOk)
        /\ ups' = [ups EXCEPT ![r].pc = "index", ![r].saved = saveOk]
        /\ UNCHANGED <<clock, exts, pinecone, pineconeOn, up, upResp, delResp, found, nreq,
                       logged, answerVars, syncVars, recoverVars, authVars, uiVars>>

\* await vectorStore.upsertArticle(article) of request r
RaceIndex(r) ==
    \E embedOk \in BOOLEAN, upsertOk \in BOOLEAN :
        /\ ups[r].pc = "index"
        /\ pinecone' = UpsertArticle(pinecone, pineconeOn, ups[r].art, embedOk, upsertOk)
        /\ ups' = [ups EXCEPT ![r].pc = "done",
                              ![r].indexed = pineconeOn /\ embedOk /\ upsertOk]
        /\ UNCHANGED <<clock, exts, gcs, pineconeOn, up, upResp, delResp, found, nreq,
                       logged, answerVars, syncVars, recoverVars, authVars, uiVars>>

NextRace ==
    \/ Tick
    \/ \E r \in Requests : RaceArrive(r)
    \/ \E r \in Requests : RaceSave(r)
    \/ \E r \in Requests : RaceIndex(r)

SpecRace == InitRace /\ [][NextRace]_vars

-----------------------------------------------------------------------------
(* Presentation-deck extractions in flight together *)

\* path.join(os.tmpdir(), `temp-${Date.now()}.pptx`)
TempPath(now) == <<"temp", now, "pptx">>

\* the passing of a millisecond during the extractions
TempTick ==
    /\ clock < MaxClock
    /\ clock' = clock + 1
    /\ UNCHANGED <<ups, exts, indexVars, answerVars, syncVars, recoverVars, authVars, uiVars>>

\* the pptx branch of request r names its temporary file
ExtractStart(r) ==
    /\ exts[r].pc = "idle"
    /\ exts' = [exts EXCEPT ![r] = [pc |-> "write", path |-> TempPath(clock),
                                    threw |-> FALSE]]
    /\ UNCHANGED <<ups, clock, indexVars, answerVars, syncVars, recoverVars, authVars, uiVars>>

\* await fs.writeFile(tempPath, content) of request r
ExtractWrite(r) ==
    \E outcome \in WriteOutcomes :
        /\ exts[r].pc = "write"
        /\ tmpFiles' = WriteFile(tmpFiles, exts[r].path, outcome)
        /\ exts' = [exts EXCEPT ![r].pc = IF outcome = "written" THEN "parse" ELSE "unlink",
                                ![r].threw = outcome # "written"]
        /\ UNCHANGED <<ups, clock, sync, syncResp, indexVars, answerVars, recoverVars, authVars, uiVars>>

\* await officeParser.parseOffice(tempPath, ...) of request r: it rejects
\* when the converter fails or the file is not there
ExtractParse(r) ==
    \E parseOk \in BOOLEAN :
        /\ exts[r].pc = "parse"
        /\ exts' = [exts EXCEPT ![r].pc = "unlink",
                                ![r].threw = ~parseOk \/ exts[r].path \notin tmpFiles]
        /\ UNCHANGED <<ups, clock, indexVars, answerVars, syncVars, recoverVars, authVars, uiVars>>

\* the finally of request r
ExtractUnlink(r) ==
    /\ exts[r].pc = "unlink"
    /\ tmpFiles' = PptxFinally(tmpFiles, exts[r].path, exts[r].threw)
    /\ exts' = [exts EXCEPT ![r].pc = "done"]
    /\ UNCHANGED <<ups, clock, sync, syncResp, indexVars, answerVars, recoverVars, authVars, uiVars>>

NextTemp ==
    \/ TempTick
    \/ \E r \in Requests : ExtractStart(r)
    \/ \E r \in Requests : ExtractWrite(r)
    \/ \E r \in Requests : ExtractParse(r)
    \/ \E r \in Requests : ExtractUnlink(r)

SpecTemp == InitRace /\ [][NextTemp]_vars

-----------------------------------------------------------------------------
(* Authentication, the /api gate and the member routes *)

\* a record of members.json: email and id are one identity here (the id of
\* an auto-created member is the token's subject); name "" is a name not set,
\* role and status "absent" are fields a legacy record lacks
MemberRecord(id, name, role, status) ==
    [id |-> id, name |-> name, role |-> role, status |-> status]

\* identities a Google token can carry; "none" is a request without a token
Users == {"u1", "u2"}
IdTokens == Users \cup {"none"}

\* process.env.INITIAL_ADMIN_EMAIL
InitialAdminEmail == "u2"

\* member lists the server can start with
Rosters ==
    {<<>>,
     <<MemberRecord("u1", "n", "member", "rejected")>>,
     <<MemberRecord("u1", "n", "guest", "approved"),
       MemberRecord("u2", "", "absent", "absent")>>,
     <<MemberRecord("u1", "n", "member", "pending"),
       MemberRecord("u2", "n", "admin", "approved")>>}

\* the requests a client sends: method and req.path (the path under /api)
RequestKinds ==
    {[method |-> "GET", path |-> "/health"],
     [method |-> "GET", path |-> "/health/ai"],
     [method |-> "PUT", path |-> "/me"],
     [method |-> "POST", path |-> "/upload/image"],
     [method |-> "POST", path |-> "/chat"],
     [method |-> "GET", path |-> "/members"],
     [method |-> "POST", path |-> "/members"],
     [method |-> "DELETE", path |-> "/members/:id"]}

\* how a request is routed: the routes registered before the /api gate are
\* matched first, "public" without a middleware and "auth" behind
\* authMiddleware alone; every other request goes through the gate
RouteOf(method, path) ==
    IF method = "GET" /\ path \in {"/health", "/health/ai"} THEN "public"
    ELSE IF \/ method = "PUT" /\ path = "/me"
            \/ method = "POST" /\ path \in {"/auth/sync", "/upload/image"}
         THEN "auth"
         ELSE "gate"

\* the paths the gate lets through without authMiddleware
GateSkipsAuth(path) == path \in {"/health", "/admin/clear-data"}

WriteMethods == {"POST", "PUT", "DELETE", "PATCH"}

\* allowedValues
GuestAllowed == {"/chat", "/auth/sync"}

\* the guest write restriction of the gate
GuestBlocked(role, method, path) ==
    role = "guest" /\ method \in WriteMethods /\ path \notin GuestAllowed

\* StorageService.loadMembers: the list, or [] when the read fails
LoadMembers(file, loadOk) == IF loadOk THEN file ELSE <<>>

\* Array.prototype.findIndex on the id: 0 stands for -1
FindIndex(list, id) ==
    IF \E i \in DOMAIN list : list[i].id = id
    THEN CHOOSE i \in DOMAIN list :
            list[i].id = id /\ \A j \in DOMAIN list : list[j].id = id => i <= j
    ELSE 0

\* StorageService.findMemberByEmail on a loaded list
FindMemberByEmail(list, email) ==
    IF FindIndex(list, email) = 0 THEN NoMember ELSE list[FindIndex(list, email)]

\* the sync of an existing member: name from the token when not set, role
\* and status filled in when a legacy record lacks them
SyncMember(m) ==
    [m EXCEPT !.name = IF @ = "" THEN "n" ELSE @,
              !.role = IF @ = "absent" THEN "member" ELSE @,
              !.status = IF @ = "absent" THEN "approved" ELSE @]

\* the member built for a first login
NewMember(email, auto) ==
    LET isInitialAdmin == email = InitialAdminEmail
    IN  MemberRecord(email, "n",
                     IF isInitialAdmin THEN "admin" ELSE IF auto THEN "guest" ELSE "member",
                     IF isInitialAdmin \/ auto THEN "approved" ELSE "pending")

\* the status of the member a token belongs to, "none" without one
StatusOf(file, token) == 
    IF FindIndex(file, token) = 0 THEN "none" ELSE file[FindIndex(file, token)].status

\* next() of authMiddleware: behind the gate the guest restriction follows,
\* then the route handler
AfterNext(req, user, role) ==
    IF RouteOf(req.method, req.path) = "gate" /\ GuestBlocked(role, req.method, req.path)
    THEN [req EXCEPT !.pc = "done", !.nexted = TRUE, !.user = user, !.role = role,
                     !.status = 403]
    ELSE [req EXCEPT !.pc = "handler", !.nexted = TRUE, !.user = user, !.role = role]

\* AfterNext without a call of next() for a member who is not approved
AccessCheck_NoCheck(req) == AfterNext(req, req.member.id, req.member.role)

\* the access check of authMiddleware on req.member, then next()
AccessCheck(req) ==
    IF req.member.status \in {"rejected", "pending"}
    THEN [req EXCEPT !.pc = "done", !.status = 403]
    ELSE AfterNext(req, req.member.id, req.member.role)

\* what is left alone by the requests of this section
authFrame ==
    <<gcs, pinecone, pineconeOn, up, upResp, delResp, found, logged, projectsFile,
      devEnv, chat, chatResp, syncVars, raceVars, recoverVars, uiVars>>

InitAuth ==
    /\ gcs = <<>>
    /\ pinecone = <<>>
    /\ pineconeOn = FALSE
    /\ up = NoUpload
    /\ upResp = NoResponse
    /\ delResp = NoResponse
    /\ found = NoSearch
    /\ nreq = 0
    /\ logged = NoLogged
    /\ projectsFile = <<>>
    /\ membersFile \in Rosters
    /\ devEnv = FALSE
    /\ chat = NoChat
    /\ chatResp = NoChatResponse
    /\ sync = NoSync
    /\ syncResp = NoResponse
    /\ tmpFiles = {}
    /\ ups = NoUploads
    /\ exts = NoExtractions
    /\ clock = 1
    /\ modelText = <<>>
    /\ recovered = NoRecovered
    /\ members = membersFile
    /\ reqs = NoRequests
    /\ autoApprove \in BOOLEAN
    /\ skipAuth \in BOOLEAN
    /\ ui = NoUi

\* a request arrives and is routed; authMiddleware runs up to its call of
\* findMemberByEmail (SKIP_AUTH bypass, missing token, verifyIdToken)
Arrive(r) ==
    \E kind \in RequestKinds, token \in IdTokens, verifyOk \in BOOLEAN :
        LET req == [NoRequest EXCEPT !.method = kind.method, !.path = kind.path,
                                     !.token = token,
                                     !.tokenStatus = StatusOf(membersFile, token)]
            route == RouteOf(kind.method, kind.path)
        IN  /\ reqs[r].pc = "idle"
            /\ reqs' = [reqs EXCEPT ![r] =
                  IF route = "public" \/ (route = "gate" /\ GateSkipsAuth(kind.path))
                  THEN [req EXCEPT !.pc = "handler"]
                  ELSE IF skipAuth
                  THEN AfterNext([req EXCEPT !.authed = TRUE], "dev-user", "absent")
                  ELSE IF token = "none" \/ ~verifyOk
                  THEN [req EXCEPT !.pc = "done", !.authed = TRUE, !.status = 401]
                  ELSE [req EXCEPT !.pc = "find", !.authed = TRUE]]
            /\ UNCHANGED <<authFrame, nreq, membersFile, members, autoApprove, skipAuth>>

\* await StorageService.findMemberByEmail(email): an existing member is
\* synced and checked, a new one is built (await loadSettings)
AuthFind(r) ==
    \E loadOk \in BOOLEAN, settingsOk \in BOOLEAN :
        LET req == reqs[r]
            member == FindMemberByEmail(LoadMembers(membersFile, loadOk), req.token)
        IN  /\ req.pc = "find"
            /\ reqs' = [reqs EXCEPT ![r] =
                  IF member = NoMember
                  THEN [req EXCEPT !.pc = "new_load",
                                   !.member = NewMember(req.token, autoApprove /\ settingsOk)]
                  ELSE IF SyncMember(member) # member
                  THEN [req EXCEPT !.pc = "sync_load", !.member = SyncMember(member)]
                  ELSE AccessCheck([req EXCEPT !.member = member])]
            /\ UNCHANGED <<authFrame, nreq, membersFile, members, autoApprove, skipAuth>>

\* existing member, needsUpdate: await loadMembers, findIndex
AuthSyncLoad(r) ==
    \E loadOk \in BOOLEAN :
        LET req == reqs[r]
            allMembers == LoadMembers(membersFile, loadOk)
            index == FindIndex(allMembers, req.member.id)
        IN  /\ req.pc = "sync_load"
            /\ reqs' = [reqs EXCEPT ![r] =
                  IF index > 0
                  THEN [req EXCEPT !.pc = "sync_save",
                                   !.allMembers = [allMembers EXCEPT ![index] = req.member]]
                  ELSE AccessCheck(req)]
            /\ UNCHANGED <<authFrame, nreq, membersFile, members, autoApprove, skipAuth>>

\* existing member: await saveMembers(allMembers), then the access check; a
\* throw of the save reaches the catch of authMiddleware (401)
AuthSyncSave(r) ==
    \E saveOk \in BOOLEAN :
        LET req == reqs[r]
        IN  /\ req.pc = "sync_save"
            /\ membersFile' = IF saveOk THEN req.allMembers ELSE membersFile
            /\ reqs' = [reqs EXCEPT ![r] =
                  IF saveOk
                  THEN AccessCheck([req EXCEPT !.wrote = TRUE])
                  ELSE [req EXCEPT !.pc = "done", !.status = 401]]
            /\ UNCHANGED <<authFrame, nreq, members, autoApprove, skipAuth>>

\* new member: await loadMembers, push
AuthNewLoad(r) ==
    \E loadOk \in BOOLEAN :
        LET req == reqs[r]
        IN  /\ req.pc = "new_load"
            /\ reqs' = [reqs EXCEPT ![r] =
                  [req EXCEPT !.pc = "new_save",
                              !.allMembers = Append(LoadMembers(membersFile, loadOk),
                                                    req.member)]]
            /\ UNCHANGED <<authFrame, nreq, membersFile, members, autoApprove, skipAuth>>

\* new member: await saveMembers(allMembers); a pending member is answered
\* 403, an approved one goes on
AuthNewSave(r) ==
    \E saveOk \in BOOLEAN :
        LET req == reqs[r]
        IN  /\ req.pc = "new_save"
            /\ membersFile' = IF saveOk THEN req.allMembers ELSE membersFile
            /\ reqs' = [reqs EXCEPT ![r] =
                  IF saveOk
                  THEN AccessCheck([req EXCEPT !.wrote = TRUE])
                  ELSE [req EXCEPT !.pc = "done", !.status = 401]]
            /\ UNCHANGED <<authFrame, nreq, members, autoApprove, skipAuth>>

\* the handlers that write no member data: health, health/ai, image upload,
\* chat and the member listing
Handle(r) ==
    LET req == reqs[r]
    IN  /\ req.pc = "handler"
        /\ req.path \in {"/health", "/health/ai", "/upload/image", "/chat"}
              \/ (req.path = "/members" /\ req.method = "GET")
        /\ reqs' = [reqs EXCEPT ![r] = [req EXCEPT !.pc = "done", !.ran = TRUE,
                                                   !.status = 200]]
        /\ UNCHANGED <<authFrame, nreq, membersFile, members, autoApprove, skipAuth>>

\* the profile update a client sends
UpdatedName == "n2"

\* PUT /api/me up to the save: await loadMembers, findIndex, merge
MeLoad(r) ==
    \E loadOk \in BOOLEAN :
        LET req == reqs[r]
            currentMembers == LoadMembers(membersFile, loadOk)
            index == FindIndex(currentMembers, req.user)
        IN  /\ req.pc = "handler"
            /\ req.path = "/me"
            /\ reqs' = [reqs EXCEPT ![r] =
                  IF index = 0
                  THEN [req EXCEPT !.pc = "done", !.ran = TRUE, !.status = 404]
                  ELSE [req EXCEPT !.pc = "me_save", !.ran = TRUE,
                                   !.allMembers = [currentMembers EXCEPT
                                                     ![index].name = UpdatedName]]]
            /\ UNCHANGED <<authFrame, nreq, membersFile, members, autoApprove, skipAuth>>

\* PUT /api/me: await saveMembers(currentMembers); members = currentMembers
MeSave(r) ==
    \E saveOk \in BOOLEAN :
        LET req == reqs[r]
        IN  /\ req.pc = "me_save"
            /\ membersFile' = IF saveOk THEN req.allMembers ELSE membersFile
            /\ members' = IF saveOk THEN req.allMembers ELSE members
            /\ reqs' = [reqs EXCEPT ![r] =
                  [req EXCEPT !.pc = "done", !.wrote = saveOk,
                              !.status = IF saveOk THEN 200 ELSE 500]]
            /\ UNCHANGED <<authFrame, nreq, autoApprove, skipAuth>>

\* the member a client posts
PostedMember == MemberRecord("m9", "n", "member", "approved")

\* members.findIndex / replace / push of POST /api/members
UpsertMember(list, member) ==
    IF FindIndex(list, member.id) > 0
    THEN [list EXCEPT ![FindIndex(list, member.id)] = member]
    ELSE Append(list, member)

\* POST /api/members: the in-memory list is changed and saved as a whole; a
\* throw of the save leaves the request unanswered
PostMember(r) ==
    \E saveOk \in BOOLEAN :
        LET req == reqs[r]
        IN  /\ req.pc = "handler"
            /\ req.path = "/members"
            /\ req.method = "POST"
            /\ members' = UpsertMember(members, PostedMember)
            /\ membersFile' = IF saveOk THEN members' ELSE membersFile
            /\ reqs' = [reqs EXCEPT ![r] =
                  [req EXCEPT !.pc = "done", !.ran = TRUE, !.wrote = saveOk,
                              !.status = IF saveOk THEN 200 ELSE 0]]
            /\ UNCHANGED <<authFrame, nreq, autoApprove, skipAuth>>

\* the id of DELETE /api/members/:id
DeletedId == "u1"

\* DELETE /api/members/:id: members.filter, then the save of the whole list
DeleteMember(r) ==
    \E saveOk \in BOOLEAN :
        LET req == reqs[r]
        IN  /\ req.pc = "handler"
            /\ req.path = "/members/:id"
            /\ members' = SelectSeq(members, LAMBDA m : m.id # DeletedId)
            /\ membersFile' = IF saveOk THEN members' ELSE membersFile
            /\ reqs' = [reqs EXCEPT ![r] =
                  [req EXCEPT !.pc = "done", !.ran = TRUE, !.wrote = saveOk,
                              !.status = IF saveOk THEN 200 ELSE 0]]
            /\ UNCHANGED <<authFrame, nreq, autoApprove, skipAuth>>

NextAuth ==
    \/ \E r \in Requests : Arrive(r)
    \/ \E r \in Requests : AuthFind(r)
    \/ \E r \in Requests : AuthSyncLoad(r)
    \/ \E r \in Requests : AuthSyncSave(r)
    \/ \E r \in Requests : AuthNewLoad(r)
    \/ \E r \in Requests : AuthNewSave(r)
    \/ \E r \in Requests : Handle(r)
    \/ \E r \in Requests : MeLoad(r)
    \/ \E r \in Requests : MeSave(r)
    \/ \E r \in Requests : PostMember(r)
    \/ \E r \in Requests : DeleteMember(r)

SpecAuth == InitAuth /\ [][NextAuth]_vars

-----------------------------------------------------------------------------
(* POST /api/chat *)

\* persisted project lists a request can find
Project(id, nameChars, status, descriptionChars, assignees) ==
    [id |-> id, name |-> Text(nameChars), category |-> Text(0), status |-> status,
     progressPercent |-> 45, assignees |-> assignees, deadline |-> Text(9),
     description |-> Text(descriptionChars)]

ProjectLists ==
    {<<>>,
     <<Project("p1", 12, "in_progress", 250, {"m1"}),
       Project("p2", 10, "completed", 30, {"m1", "m2"}),
       Project("p3", 8, "planning", 0, {})>>,
     [i \in 1..7 |-> Project("p", 60, "in_progress", 400, {"m1", "m2"})]}

\* persisted member lists a request can find
Member(id, nameChars, skillChars, workloadStatus, status) ==
    [id |-> id, name |-> Text(nameChars), department |-> Text(12),
     position |-> Text(0), skills |-> [i \in 1..6 |-> Text(skillChars)],
     workloadStatus |-> workloadStatus, status |-> status]

MemberLists ==
    {<<>>,
     <<Member("m1", 6, 5, "busy", "approved"),
       Member("m2", 8, 0, "available", "rejected")>>,
     [i \in 1..11 |-> Member(IF i = 1 THEN "m1" ELSE "m2", 40, 160, "overloaded", "approved")]}

\* vector index contents a request can find (each built by upsertArticle)
IndexedArticles ==
    {{},
     {UploadArticle("k-1", "a.txt", [name |-> "c1", len |-> 120])},
     {UploadArticle("k-1", "a.txt", [name |-> "c1", len |-> 120]),
      DriveArticle("k-2", "deck.pptx", [name |-> "c2", len |-> 9000], "https://drive/k-2")}}

RECURSIVE IndexOf(_)
IndexOf(articles) ==
    IF articles = {} THEN <<>>
    ELSE LET a == CHOOSE x \in articles : TRUE
         IN  UpsertArticle(IndexOf(articles \ {a}), TRUE, a, TRUE, TRUE)

InitAnswer ==
    /\ gcs = <<>>
    /\ pinecone \in {IndexOf(A) : A \in IndexedArticles}
    /\ pineconeOn \in BOOLEAN
    /\ up = NoUpload
    /\ upResp = NoResponse
    /\ delResp = NoResponse
    /\ found = NoSearch
    /\ nreq = 0
    /\ projectsFile \in ProjectLists
    /\ membersFile \in MemberLists
    /\ devEnv \in BOOLEAN
    /\ chat = NoChat
    /\ chatResp = NoChatResponse
    /\ sync = NoSync
    /\ syncResp = NoSyncResponse
    /\ tmpFiles = {}
    /\ logged = NoLogged
    /\ ups = NoUploads
    /\ exts = NoExtractions
    /\ clock = 1
    /\ modelText = <<>>
    /\ recovered = NoRecovered
    /\ members = <<>>
    /\ reqs = NoRequests
    /\ autoApprove = FALSE
    /\ skipAuth = FALSE
    /\ ui = NoUi

\* the request arrives: 400 without a question
ChatReceive ==
    \E hasQuestion \in BOOLEAN, department \in Departments :
        /\ chat.pc = "idle"
        /\ IF hasQuestion
           THEN /\ chat' = [chat EXCEPT !.pc = "search", !.department = department]
                /\ chatResp' = chatResp
           ELSE /\ chat' = [chat EXCEPT !.pc = "done"]
                /\ chatResp' = NoQuestionResponse
        /\ UNCHANGED <<projectsFile, membersFile, devEnv, indexVars, syncVars, raceVars, recoverVars, authVars, uiVars>>

\* loadProjects, loadMembers, vectorStore.search and the context: a throw of
\* search would reach the handler's catch
ChatSearch ==
    \E embedOk \in BOOLEAN, queryOk \in BOOLEAN :
        \E r \in SearchResults(pinecone, pineconeOn, Question, chat.department,
                               embedOk, queryOk) :
            /\ chat.pc = "search"
            /\ IF r.threw
               THEN /\ chat' = [chat EXCEPT !.pc = "done",
                                            !.searchFailed = TRUE]
                    /\ chatResp' = ChatErrorResponse(
                                     [category |-> "search", raw |-> NoRaw], devEnv)
               ELSE /\ chat' = [chat EXCEPT
                                  !.pc = "generate",
                                  !.searchFailed = ~pineconeOn \/ ~embedOk \/ ~queryOk,
                                  !.relevantArticles = r.hits,
                                  !.digestProjects = ActiveProjects(projectsFile),
                                  !.digestMembers = DisplayMembers(membersFile),
                                  !.description =
                                      ContextDescription(projectsFile, membersFile)]
                    /\ chatResp' = chatResp
            /\ UNCHANGED <<projectsFile, membersFile, devEnv, indexVars, syncVars, raceVars, recoverVars, authVars, uiVars>>

\* gemini.query up to the answer: one generateContent call on this.model; a
\* failure is rethrown by the catch of query and answered 500 by the handler
QueryGenerate ==
    \E e \in EndpointBehaviours :
        /\ chat.pc = "generate"
        /\ IF e[ModelName] \in GenErrors
           THEN /\ chat' = [chat EXCEPT
                              !.pc = QueryCatch(ModelName, e[ModelName]).pc,
                              !.endpoint = e,
                              !.invoked = Append(@, [model |-> ModelName, call |-> "answer"])]
                /\ chatResp' = ChatErrorResponse(
                                 QueryCatch(ModelName, e[ModelName]).error, devEnv)
           ELSE /\ chat' = [chat EXCEPT
                              !.pc = "followup", !.endpoint = e,
                              !.invoked = Append(@, [model |-> ModelName, call |-> "answer"]),
                              !.answer = AnswerText(ModelName, e[ModelName])]
                /\ chatResp' = chatResp
        /\ UNCHANGED <<projectsFile, membersFile, devEnv, indexVars, syncVars, raceVars, recoverVars, authVars, uiVars>>

\* the rest of gemini.query and res.json(response): the follow-up call on the
\* same model, inside the try of query
QueryFollowUp ==
    \E outcome \in FollowUpOutcomes :
        LET f == GenerateFollowUpQuestions(outcome)
        IN  /\ chat.pc = "followup"
            /\ chat' = [chat EXCEPT
                          !.pc = "done", !.followUp = outcome,
                          !.invoked = Append(@, [model |-> ModelName, call |-> "followup"])]
            /\ chatResp' =
                 IF f.threw
                 THEN ChatErrorResponse(QueryError(ModelName, "other"), devEnv)
                 ELSE AnswerResponse(chat.answer, chat.relevantArticles, f.questions)
            /\ UNCHANGED <<projectsFile, membersFile, devEnv, indexVars, syncVars, raceVars, recoverVars, authVars, uiVars>>

NextAnswer == ChatReceive \/ ChatSearch \/ QueryGenerate \/ QueryFollowUp

SpecAnswer == InitAnswer /\ [][NextAnswer]_vars

-----------------------------------------------------------------------------
(* Recovery of JSON from model text *)

\* a model text as a sequence of tokens: braces, brackets, a member "a":1, a
\* string literal, prose (x), and a code fence (f)
Tokens == {"{", "}", "[", "]", "m", "s", "x", "f"}

Texts == UNION {[1..n -> Tokens] : n \in 0..MaxTextLen}

Positions(text, tok) == {i \in 1..Len(text) : text[i] = tok}

MinOf(S) == CHOOSE x \in S : \A y \in S : x <= y

MaxOf(S) == CHOOSE x \in S : \A y \in S : x >= y

\* JSON.parse accepts: a string, an object with no or one member, an array
\* with no or one element
RECURSIVE IsJson(_)
IsJson(t) ==
    \/ t = <<"s">>
    \/ t = <<"{", "}">>
    \/ t = <<"{", "m", "}">>
    \/ /\ Len(t) >= 2
       /\ t[1] = "["
       /\ t[Len(t)] = "]"
       /\ (Len(t) = 2 \/ IsJson(SubSeq(t, 2, Len(t) - 1)))

NoMatch == [found |-> FALSE, text |-> <<>>]

\* text.match(/\{[\s\S]*\}/) and text.match(/\[[\s\S]*\]/): from the first
\* opening token to the last closing token after it
RegexMatch(text, open, close) ==
    IF Positions(text, open) = {}
    THEN NoMatch
    ELSE LET i == MinOf(Positions(text, open))
             after == {j \in Positions(text, close) : j > i}
         IN  IF after = {} THEN NoMatch
             ELSE [found |-> TRUE, text |-> SubSeq(text, i, MaxOf(after))]

\* the ExtractedData the catch of extractFromDocument returns
DocumentDefault == <<"default">>

\* GeminiService.extractFromDocument: the parsed object, or the default when
\* the call throws, the text has no {...} or JSON.parse rejects the match
ExtractFromDocument(text, genOk) ==
    LET jsonMatch == RegexMatch(text, "{", "}")
    IN  IF genOk /\ jsonMatch.found /\ IsJson(jsonMatch.text)
        THEN [threw |-> FALSE, value |-> jsonMatch.text]
        ELSE [threw |-> FALSE, value |-> DocumentDefault]

\* what the body of generateFollowUpQuestions ends in for a model text
FollowUpOutcome(text, genOk) ==
    LET jsonMatch == RegexMatch(text, "[", "]")
    IN  IF ~genOk THEN "error"
        ELSE IF ~jsonMatch.found THEN "nomatch"
        ELSE IF ~IsJson(jsonMatch.text) THEN "badjson"
        ELSE "array"

\* the list generateFollowUpQuestions returns for a model text
FollowUpValue(text, genOk) ==
    IF FollowUpOutcome(text, genOk) = "array" /\ ~GenerateFollowUpQuestions(
                                                    FollowUpOutcome(text, genOk)).threw
    THEN RegexMatch(text, "[", "]").text
    ELSE <<"[", "]">>

InitRecover ==
    /\ gcs = <<>>
    /\ pinecone = <<>>
    /\ pineconeOn = FALSE
    /\ up = NoUpload
    /\ upResp = NoResponse
    /\ delResp = NoResponse
    /\ found = NoSearch
    /\ nreq = 0
    /\ projectsFile = <<>>
    /\ membersFile = <<>>
    /\ devEnv = FALSE
    /\ chat = NoChat
    /\ chatResp = NoChatResponse
    /\ sync = NoSync
    /\ syncResp = NoSyncResponse
    /\ tmpFiles = {}
    /\ logged = NoLogged
    /\ ups = NoUploads
    /\ exts = NoExtractions
    /\ clock = 1
    /\ modelText \in Texts
    /\ recovered = NoRecovered
    /\ members = <<>>
    /\ reqs = NoRequests
    /\ autoApprove = FALSE
    /\ skipAuth = FALSE
    /\ ui = NoUi

\* extractFromDocument on a document whose model text is modelText
RecoverDocument ==
    \E genOk \in BOOLEAN :
        LET r == ExtractFromDocument(modelText, genOk)
        IN  /\ ~recovered.done
            /\ recovered' = [done |-> TRUE, by |-> "extractFromDocument",
                             called |-> genOk, threw |-> r.threw, value |-> r.value]
            /\ UNCHANGED <<modelText, indexVars, answerVars, syncVars, raceVars, authVars, uiVars>>

\* generateFollowUpQuestions on an answer whose model text is modelText
RecoverFollowUp ==
    \E genOk \in BOOLEAN :
        /\ ~recovered.done
        /\ recovered' = [done |-> TRUE, by |-> "generateFollowUpQuestions",
                         called |-> genOk,
                         threw |-> GenerateFollowUpQuestions(
                                       FollowUpOutcome(modelText, genOk)).threw,
                         value |-> FollowUpValue(modelText, genOk)]
        /\ UNCHANGED <<modelText, indexVars, answerVars, syncVars, raceVars, authVars, uiVars>>

NextRecover == RecoverDocument \/ RecoverFollowUp

SpecRecover == InitRecover /\ [][NextRecover]_vars

-----------------------------------------------------------------------------
(* Chat components of the frontend: handleSend *)

\* the two components that carry a handleSend
Components == {"ChatInterface", "Dashboard"}

\* how the fetch of /api/chat ends: a 200 with a JSON body, a 200 whose body
\* does not parse, a 401, a 403 or a 500 with a JSON error, or a rejection
FetchOutcomes == {"ok", "badJson", "401", "403", "500", "rejected"}

\* the first argument of handleSend: a suggested question, or none
SendTexts == {"", "q"}

\* the error of the body of a response that is not ok
ErrorOf(outcome) ==
    CASE outcome = "401" -> "No token provided"
      [] outcome = "403" -> "Account pending approval"
      [] outcome = "500" -> "answer retrieval failed"
      [] OTHER -> "API error"

\* the two substrings error.message is searched for: the text of the 500
\* of /api/chat, and 'API error'
IsLimitMessage(message) ==
    message \in {"answer retrieval failed", "API error"}

\* the messages one settled fetch appends in ChatInterface
ChatInterfaceAppends(outcome) ==
    IF outcome = "ok"
    THEN <<[role |-> "assistant", content |-> "answer"]>>
    ELSE IF outcome \in {"401", "403", "500"} /\ IsLimitMessage(ErrorOf(outcome))
    THEN <<[role |-> "assistant", content |-> "limit"]>>
    ELSE <<[role |-> "assistant", content |-> "error"]>>

\* the messages one settled fetch appends in Dashboard: a 401 removes the
\* token, alerts, redirects and returns
DashboardAppends(outcome) ==
    IF outcome = "ok"
    THEN <<[role |-> "assistant", content |-> "answer"]>>
    ELSE IF outcome = "401"
    THEN <<>>
    ELSE <<[role |-> "assistant", content |-> "error"]>>

InitUi ==
    /\ gcs = <<>>
    /\ pinecone = <<>>
    /\ pineconeOn = FALSE
    /\ up = NoUpload
    /\ upResp = NoResponse
    /\ delResp = NoResponse
    /\ found = NoSearch
    /\ nreq = 0
    /\ logged = NoLogged
    /\ projectsFile = <<>>
    /\ membersFile = <<>>
    /\ devEnv = FALSE
    /\ chat = NoChat
    /\ chatResp = NoChatResponse
    /\ sync = NoSync
    /\ syncResp = NoResponse
    /\ tmpFiles = {}
    /\ ups = NoUploads
    /\ exts = NoExtractions
    /\ clock = 1
    /\ modelText = <<>>
    /\ recovered = NoRecovered
    /\ members = <<>>
    /\ reqs = NoRequests
    /\ autoApprove = FALSE
    /\ skipAuth = FALSE
    /\ ui \in {[NoUi EXCEPT !.component = c] : c \in Components}

\* onChange of the input: setInputValue
UiType ==
    \E value \in {"", "q", "q2"} :
        /\ ~ui.isLoading
        /\ value # ui.inputValue
        /\ ui' = [ui EXCEPT !.inputValue = value]
        /\ UNCHANGED <<indexVars, answerVars, syncVars, raceVars, recoverVars, authVars>>

\* handleSend up to the fetch: nothing happens without a question or while
\* isLoading; else the user message is appended, the input cleared and
\* isLoading set
UiSend ==
    \E text \in SendTexts :
        LET question == IF text # "" THEN text ELSE ui.inputValue
        IN  /\ ui.sends < MaxRequests
            /\ IF question = "" \/ ui.isLoading
               THEN ui' = ui
               ELSE ui' = [ui EXCEPT
                             !.messages = Append(@, [role |-> "user", content |-> question]),
                             !.inputValue = "",
                             !.isLoading = TRUE,
                             !.inflight = @ + 1,
                             !.sends = @ + 1]
            /\ UNCHANGED <<indexVars, answerVars, syncVars, raceVars, recoverVars, authVars>>

\* the fetch settles: try, catch and finally of handleSend
UiSettle ==
    \E outcome \in FetchOutcomes :
        /\ ui.inflight > 0
        /\ ui' = [ui EXCEPT
                     !.messages = @ \o (IF ui.component = "Dashboard"
                                        THEN DashboardAppends(outcome)
                                        ELSE ChatInterfaceAppends(outcome)),
                     !.isLoading = FALSE,
                     !.inflight = @ - 1]
        /\ UNCHANGED <<indexVars, answerVars, syncVars, raceVars, recoverVars, authVars>>

NextUi == UiType \/ UiSend \/ UiSettle

SpecUi == InitUi /\ [][NextUi]_vars

-----------------------------------------------------------------------------
(* Properties of the answer pipeline *)

\* the models the request called for its answer, in call order
AnswerCalls ==
    LET calls == SelectSeq(chat.invoked, LAMBDA c : c.call = "answer")
    IN  [i \in DOMAIN calls |-> calls[i].model]

\* the positions of the declared chain whose model would return non-empty text
Succeeding == {i \in DOMAIN FallbackChain : chat.endpoint[FallbackChain[i]] = "text"}

\* the request has been through the generation call and is answered
Generated == chat.pc = "done" /\ chat.endpoint # NoBehaviour

\* C1 (as claimed): the candidates [A, B, C] are tried in declared order up to
\* the first that returns non-empty text, whose text is the answer; no later
\* candidate is called.
C1_FallbackInOrder ==
    (Generated /\ Succeeding # {}) =>
        LET first == CHOOSE i \in Succeeding : \A j \in Succeeding : i <= j
        IN  /\ chatResp.status = 200
            /\ chatResp.answer = AnswerText(FallbackChain[first], "text")
            /\ AnswerCalls = SubSeq(FallbackChain, 1, first)

\* C2 (as claimed): when every configured model fails with a permission
\* error, the response carries the fixed credential message, no raw exception
\* text and no stack trace.
C2_PermissionMessageClassified ==
    (Generated /\ \A m \in Models : chat.endpoint[m] = "permission") =>
        /\ chatResp.details = [category |-> "credential", raw |-> NoRaw]
        /\ ~chatResp.stack

\* C4: a search whose embedding or vector backend failed (or is not
\* configured) hands the request no articles and no error: the request goes
\* on to the generation call, and when that call succeeds the response is the
\* generated answer.
C4_SearchFailureDegrades ==
    chat.searchFailed =>
        /\ chat.relevantArticles = <<>>
        /\ chat.pc = "done" =>
              /\ AnswerCalls = <<ModelName>>
              /\ chat.endpoint[ModelName] \notin GenErrors =>
                    /\ chatResp.status = 200
                    /\ chatResp.answer = AnswerText(ModelName, chat.endpoint[ModelName])

\* C4 witness: a request whose search failed is answered with generated text.
C4_Witness ==
    /\ chat.searchFailed
    /\ pineconeOn
    /\ chat.pc = "done"
    /\ chatResp.status = 200
    /\ chatResp.answer.text = "answer"

\* C5 (as claimed): the context in the prompt, description with digest plus
\* the retrieved articles, never exceeds the ceiling.
C5_ContextWithinCeiling ==
    chat.pc \in {"generate", "followup", "done"} =>
        PromptContextChars(chat.description, chat.relevantArticles) <= ContextCeiling

\* the steps a request at this position has left at most
Rank(c) ==
    CASE c.pc = "idle" -> 4
      [] c.pc = "search" -> 3
      [] c.pc = "generate" -> 2
      [] c.pc = "followup" -> 1
      [] OTHER -> 0

\* C17 (as claimed): the digest of a context lists the first 5 of the
\* projects whose status is not terminal, so that every non-terminal project
\* is eligible and no terminal one appears, and the first 10 of the members
\* whose status is not terminal; each project description is cut to the
\* character limit.
C17_DigestListsActiveRecords ==
    chat.pc \in {"generate", "followup"}
      => /\ chat.digestProjects
              = Slice(SelectSeq(projectsFile,
                                LAMBDA p : p.status \notin TerminalProjectStatuses),
                      MaxDigestProjects)
         /\ chat.digestMembers
              = Slice(SelectSeq(membersFile,
                                LAMBDA m : m.status \notin TerminalMemberStatuses),
                      MaxDigestMembers)

\* C13: every step of an answer request brings it closer to its end, and the
\* request never makes more model calls than one per candidate of the fixed
\* list plus one follow-up call.
C13_AnswerTerminates ==
    [][/\ Rank(chat') < Rank(chat)
       /\ Len(chat'.invoked) <= Len(FallbackChain) + 1]_vars

\* C13 witness: a request has ended after its answer call and its follow-up call.
C13_Witness ==
    /\ chat.pc = "done"
    /\ Len(chat.invoked) = 2

\* C8: once the primary call has returned its text, the response is that
\* text whatever the follow-up call does, and a failed follow-up call gives
\* an empty suggestion list.
C8_FollowUpNeverBlocks ==
    (chat.pc = "done" /\ chat.followUp # "none") =>
        /\ chatResp.status = 200
        /\ chatResp.answer = AnswerText(ModelName, chat.endpoint[ModelName])
        /\ chat.followUp # "array" => chatResp.suggestedQuestions = <<>>

\* C8 witness: the follow-up call failed after a primary call that returned text.
C8_Witness ==
    /\ chat.pc = "done"
    /\ chat.followUp \in {"error", "badjson"}
    /\ chat.endpoint[ModelName] = "text"
    /\ chatResp.answer.text = "answer"

\* C9 (as claimed): the sources of an answer are the titles and URLs of the
\* articles placed in the context, in context order.
C9_SourcesAreContextArticles ==
    chatResp.status = 200 =>
        chatResp.sources =
            [i \in DOMAIN chat.relevantArticles |->
                [title |-> chat.relevantArticles[i].title,
                 url |-> chat.relevantArticles[i].sourceUrl]]

-----------------------------------------------------------------------------
(* Properties of the JSON recovery *)

\* the text between the first code fence and the next one
FencedRegion(text) ==
    LET fences == Positions(text, "f")
    IN  IF Cardinality(fences) < 2 THEN NoMatch
        ELSE LET i == MinOf(fences)
                 j == MinOf(fences \ {i})
             IN  [found |-> TRUE, text |-> SubSeq(text, i + 1, j - 1)]

\* the region from the first opening token to the closing token that balances it
BalancedRegion(text, open, close) ==
    IF Positions(text, open) = {}
    THEN NoMatch
    ELSE LET i == MinOf(Positions(text, open))
             balanced == {j \in i..Len(text) :
                            Cardinality(Positions(SubSeq(text, i, j), open))
                              = Cardinality(Positions(SubSeq(text, i, j), close))}
         IN  IF balanced = {} THEN NoMatch
             ELSE [found |-> TRUE, text |-> SubSeq(text, i, MinOf(balanced))]

\* the recovery as claimed, for a caller that wants a value opening with
\* `open`: the fenced block, then the balanced region, the first that parses;
\* else the default
Recover(text, open, close, default) ==
    LET fenced == FencedRegion(text)
        region == BalancedRegion(text, open, close)
    IN  IF fenced.found /\ IsJson(fenced.text) /\ fenced.text[1] = open
        THEN fenced.text
        ELSE IF region.found /\ IsJson(region.text)
        THEN region.text
        ELSE default

\* C12 (as claimed): the recovery never raises, returns the parse of the
\* first of fenced block and balanced region that parses, and the default
\* when none parses, on every model text.
C12_RecoveryFindsJson ==
    (recovered.done /\ recovered.called) =>
        /\ ~recovered.threw
        /\ recovered.by = "extractFromDocument"
             => recovered.value = Recover(modelText, "{", "}", DocumentDefault)
        /\ recovered.by = "generateFollowUpQuestions"
             => recovered.value = Recover(modelText, "[", "]", <<"[", "]">>)

-----------------------------------------------------------------------------
(* Properties of the Drive sync *)

\* the cycles of the running sync that are past the extraction
Extracted == {i \in DOMAIN sync.cycle : sync.cycle[i].stage \in {"save", "upsert"}}

C15_ParseFailureReported ==
    /\ \A k \in DOMAIN gcs : gcs[k].content.name # "error-marker"
    /\ \A i \in DOMAIN sync.results : sync.results[i].content.name # "error-marker"

\* the files before position i the loop does not pass over
CandidatesBefore(i) ==
    SelectSeq(SubSeq(sync.files, 1, i - 1), LAMBDA f : f.mimeType # "absent")

\* C22 (as claimed): two presentation-deck extractions that overlap in
\* time use different temporary paths, and an extraction that has written its
\* file and has yet to parse it finds the file in place.
C22_TempPathsDisjoint ==
    /\ \A r1 \in Requests : \A r2 \in Requests \ {r1} :
          (exts[r1].pc \in {"write", "parse", "unlink"}
             /\ exts[r2].pc \in {"write", "parse", "unlink"})
            => exts[r1].path # exts[r2].path
    /\ \A r \in Requests : exts[r].pc = "parse" => exts[r].path \in tmpFiles

\* C23 (as claimed): a batch whose folder was listed ends answered with
\* success after the loop has gone through every file of the folder: a failure
\* on one file does not end the batch.
C23_BatchContinuesAfterFailure ==
    (sync.pc = "done" /\ sync.files # <<>>)
      => /\ sync.next > Len(sync.files)
         /\ syncResp.status = 200
         /\ syncResp.syncedCount = Len(sync.results)

\* C18: at most one file's cycle is in flight, and while the cycle of a file
\* is in flight the cycle of every earlier file is complete: its article has
\* been through the durable write and the vector upsert and is in the results.
C18_SequentialBatch ==
    /\ Cardinality(DOMAIN sync.cycle) <= 1
    /\ \A i \in DOMAIN sync.cycle : Len(sync.results) = Len(CandidatesBefore(i))

\* C18 witness: the second file's cycle is in flight after the first file's
\* cycle has completed.
C18_Witness ==
    /\ DOMAIN sync.cycle = {2}
    /\ Len(sync.results) = 1
    /\ sync.results[1].title = sync.files[1].name

-----------------------------------------------------------------------------
(* Properties of the knowledge index *)

\* the object names / record ids under which a store holds a record of article id
RecordsOf(store, id) == {k \in DOMAIN store : store[k].id = id}

\* the durable store holds article a, and nothing else under a's id
GcsHoldsExactly(store, a) ==
    /\ Cardinality(RecordsOf(store, a.id)) = 1
    /\ \A k \in RecordsOf(store, a.id) : store[k] = a

\* the vector index holds the entry of article a, and nothing else under a's id
PineconeHoldsExactly(index, a) ==
    /\ Cardinality(RecordsOf(index, a.id)) = 1
    /\ \A k \in RecordsOf(index, a.id) :
          /\ index[k].values = TextToEmbed(a)
          /\ index[k].metadata = PineconeMetadata(a)

\* C19 (as claimed): after two ingestions of the same article id with
\* different content have both completed, all their writes having succeeded,
\* the durable store and the vector index hold the same one of the two
\* versions; and a completed ingestion whose id no other ingestion has finds
\* its own article in both stores.
C19_SameIdSameVersion ==
    \A r1 \in Requests : \A r2 \in Requests \ {r1} :
        (/\ ups[r1].pc = "done" /\ ups[r1].saved /\ ups[r1].indexed
         /\ ups[r2].pc = "done" /\ ups[r2].saved /\ ups[r2].indexed)
          => IF ups[r1].art.id = ups[r2].art.id
             THEN \E r \in {r1, r2} :
                     /\ GcsHoldsExactly(gcs, ups[r].art)
                     /\ PineconeHoldsExactly(pinecone, ups[r].art)
             ELSE /\ GcsHoldsExactly(gcs, ups[r1].art)
                  /\ PineconeHoldsExactly(pinecone, ups[r1].art)

\* C20 (as claimed): any two ingestions build articles with different ids.
C20_IdsUnique ==
    \A r1 \in Requests : \A r2 \in Requests \ {r1} :
        (ups[r1].pc # "idle" /\ ups[r2].pc # "idle")
          => ups[r1].art.id # ups[r2].art.id

\* the articles one store holds and the other does not
Inconsistent(store, index) ==
    {id \in Ids : (RecordsOf(store, id) = {}) # (RecordsOf(index, id) = {})}

\* C21 (as claimed): with the vector index configured, at every point of a
\* run at most one article is durable but not indexed, or indexed but not
\* durable.
C21_AtMostOneInconsistent ==
    pineconeOn => Cardinality(Inconsistent(gcs, pinecone)) <= 1

\* C14 (as claimed): a search whose query the embedder answers with the
\* empty vector calls no vector query and returns nothing, and no entry of the
\* vector index holds an empty vector.
C14_EmptyVectorExcluded ==
    /\ (found.seq > 0 /\ pineconeOn
           /\ GenerateEmbedding(found.query, TRUE).values = <<>>)
          => (~found.queried /\ found.hits = <<>>)
    /\ \A k \in DOMAIN pinecone : pinecone[k].values # <<>>

\* C3 (as claimed): whatever the caller's department, absent and 'admin'
\* included, every article search returns has that department in its
\* allowedDepartments.
C3_SearchWithinScope ==
    \A i \in DOMAIN found.hits :
        found.department \in found.hits[i].allowedDepartments

\* C6: an upsert step that writes leaves exactly one record of the article's
\* id in the store it writes, holding that article; and an upsert step on an
\* article the store already holds exactly (a repeated upsert of identical
\* content) leaves the store as it was.
C6_UpsertIdempotent ==
    [][/\ (up.pc = "save" /\ up'.pc = "index" /\ gcs' # gcs)
            => GcsHoldsExactly(gcs', up.art)
       /\ (up.pc = "save" /\ up'.pc = "index" /\ GcsHoldsExactly(gcs, up.art))
            => gcs' = gcs
       /\ (up.pc = "index" /\ up'.pc = "idle" /\ pinecone' # pinecone)
            => PineconeHoldsExactly(pinecone', up.art)
       /\ (up.pc = "index" /\ up'.pc = "idle" /\ PineconeHoldsExactly(pinecone, up.art))
            => pinecone' = pinecone]_vars

\* C6 witness: the second upsert of an article both stores already hold from
\* a first, complete upsert has done its durable write.
C6_Witness ==
    /\ up.pc = "index"
    /\ GcsHoldsExactly(gcs, up.art)
    /\ PineconeHoldsExactly(pinecone, up.art)

\* C7 (as claimed): when a delete request is answered with success, the
\* article is in neither the durable store nor the vector index.
C7_DeletedEverywhere ==
    [][(delResp'.seq # delResp.seq /\ delResp'.status = 200)
          => /\ RecordsOf(gcs', delResp'.id) = {}
             /\ RecordsOf(pinecone', delResp'.id) = {}]_vars

\* C16: a delete step after which a store still holds the article, its own
\* deletion having failed, has logged the failure of that store; in
\* particular a delete that leaves exactly one store holding the article has
\* logged an error.
C16_DeleteFailureLogged ==
    [][delResp'.seq # delResp.seq
          => /\ logged'.id = delResp'.id
             /\ (RecordsOf(gcs', delResp'.id) # {} /\ RecordsOf(gcs, delResp'.id) # {})
                   => "gcs" \in logged'.errors
             /\ (RecordsOf(pinecone', delResp'.id) # {}
                   /\ RecordsOf(pinecone, delResp'.id) # {})
                   => "pinecone" \in logged'.errors
             /\ ((RecordsOf(gcs', delResp'.id) = {})
                    # (RecordsOf(pinecone', delResp'.id) = {})
                   /\ RecordsOf(gcs, delResp'.id) # {}
                   /\ RecordsOf(pinecone, delResp'.id) # {})
                   => Cardinality(logged'.errors) = 1]_vars

\* C16 witness: the last request was a delete of an article both stores
\* held; one deletion failed and was logged, and the other store let go.
C16_Witness ==
    /\ delResp.seq = nreq
    /\ delResp.seq > 0
    /\ up.pc = "idle"
    /\ logged.id = delResp.id
    /\ logged.errors = {"gcs"}
    /\ RecordsOf(gcs, delResp.id) # {}
    /\ RecordsOf(pinecone, delResp.id) = {}
    /\ pineconeOn

\* the files of the batch the loop does not pass over
Candidates == SelectSeq(sync.files, LAMBDA f : f.mimeType # "absent")

\* C10 (as claimed): ingestion of a file of an unsupported type never raises
\* and still creates an article. On the upload path: an upload whose file type
\* parseFile has no case for is answered with a created article. On the sync
\* path: a file of a type processAndSave has no branch for gets an article
\* whose text is the marker, and the loop goes on to the next file.
C10_UnsupportedTypeStillIngested ==
    /\ (upResp.status # 0 /\ ExtName(upResp.name) \notin ParseFileCases)
          => upResp.status = 200
    /\ \A i \in DOMAIN sync.results :
          LET f == Candidates[i]
          IN  (f.mimeType \notin ParsedMimeTypes /\ ~StartsWithText(f.mimeType))
                => sync.results[i].content = ContentMarker(f.name)
    /\ syncResp.status = 200 => Len(sync.results) = Len(Candidates)

-----------------------------------------------------------------------------
(* Properties of authentication and the member routes *)

\* the records of a member list
RangeOf(list) == {list[i] : i \in DOMAIN list}

\* the ids of a member list
IdsOf(list) == {list[i].id : i \in DOMAIN list}

\* the request that takes the step, if one does
Acting(r) == reqs'[r] # reqs[r]

\* C24 (as claimed): a chat request whose handler has run has written
\* nothing to the persisted member list, its authentication included.
C24_ChatOnlyReads ==
    \A r \in Requests :
        (reqs[r].path = "/chat" /\ reqs[r].ran) => ~reqs[r].wrote

\* C25 (as claimed): for a caller whose role is guest, the handler of a
\* state-changing request on a path other than /chat and /auth/sync does not
\* run, and the request is answered 403.
C25_GuestWritesBlocked ==
    \A r \in Requests :
        GuestBlocked(reqs[r].role, reqs[r].method, reqs[r].path)
          => /\ reqs[r].pc # "handler"
             /\ ~reqs[r].ran
             /\ reqs[r].pc = "done" => reqs[r].status = 403

\* C26 (as claimed): authMiddleware does not call next(), and no handler
\* runs, for a request whose token belongs to a member who was pending or
\* rejected when the request arrived, or whom this request created as pending.
C26_UnapprovedNeverPasses ==
    \A r \in Requests :
        (/\ reqs[r].authed
         /\ \/ reqs[r].tokenStatus \in {"pending", "rejected"}
            \/ reqs[r].member.status \in {"pending", "rejected"})
          => /\ ~reqs[r].nexted
             /\ ~reqs[r].ran
             /\ reqs[r].pc # "handler"

\* C27 (as claimed): a handler of a path other than /health runs only for
\* a request on which authMiddleware has called next().
C27_HandlersBehindAuth ==
    \A r \in Requests :
        ((reqs[r].pc = "handler" \/ reqs[r].ran) /\ reqs[r].path # "/health")
          => reqs[r].nexted

\* C28 (as claimed): the save of a POST or DELETE on /api/members keeps
\* every persisted member other than the one a DELETE names.
C28_MemberRoutesKeepMembers ==
    [][\A r \in Requests :
          (/\ Acting(r)
           /\ reqs[r].pc = "handler"
           /\ reqs[r].path \in {"/members", "/members/:id"}
           /\ reqs[r].method \in {"POST", "DELETE"}
           /\ reqs'[r].wrote)
            => \A id \in IdsOf(membersFile) :
                  \/ id \in IdsOf(membersFile')
                  \/ id = DeletedId]_vars

\* C29 (as claimed): the save of a login or of a profile update changes
\* the record of its own member only: every record of another member that
\* is persisted before the save is persisted after it.
C29_SavesKeepOtherMembers ==
    [][\A r \in Requests :
          (/\ Acting(r)
           /\ reqs[r].pc \in {"sync_save", "new_save", "me_save"})
            => LET own == IF reqs[r].pc = "me_save" THEN reqs[r].user
                          ELSE reqs[r].member.id
               IN  {m \in RangeOf(membersFile) : m.id # own}
                      \subseteq RangeOf(membersFile')]_vars

-----------------------------------------------------------------------------
(* Properties of the chat components *)

\* C30 (as claimed): at most one send is in flight; with none in flight the
\* loading flag is off and the messages after the greeting are one user
\* message and one assistant message per send, in that order; with one in
\* flight its user message is the last.
C30_SendAppendsPair ==
    /\ ui.inflight <= 1
    /\ ui.isLoading <=> ui.inflight = 1
    /\ Len(ui.messages) = 1 + 2 * ui.sends - ui.inflight
    /\ \A i \in 2..Len(ui.messages) :
          ui.messages[i].role = IF i % 2 = 0 THEN "user" ELSE "assistant"

====
